---- MODULE Spec2Model ----
(***************************************************************************)
(* Model of the lzaas account-request ledger (AFTManager, backed by one    *)
(* DynamoDB table) and of the OU name resolver of the migrate commands.    *)
(*                                                                         *)
(* Spec     : the ledger driven by one caller (put / get / list / update / *)
(*            delete), with the wall clock as an environment variable.     *)
(* SpecConc : two callers updating the same record concurrently.           *)
(* SpecOU   : find_ou_by_name applied to bounded OU hierarchies.           *)
(* SpecMigrate : one attempt of a migrate command (existing_ou, simple,    *)
(*            account), one step per call of the Directory Service, the    *)
(*            operator or the ledger.                                      *)
(* SpecStatus : the status commands (check, overview) over ledgers built   *)
(*            by puts and updates and over Pipeline Service outcomes.      *)
(* SpecSummary : overview over ledgers of up to one record more than it    *)
(*            reads, scanned in several orders.                            *)
(* SpecLifecycle : the ledger under creates, status updates and deletes.   *)
(* SpecListOus : list_ous on bounded hierarchies, with a listing call that *)
(*            may raise.                                                   *)
(* SpecWalk : find_ou_by_name call by call (page fetches, call stack) on   *)
(*            hierarchies that may not be trees.                           *)
(***************************************************************************)
EXTENDS Integers, Sequences, FiniteSets, TLC

VARIABLES
    tableExists,  \* whether the table "lzaas-account-requests" exists
    table,        \* the table: request_id -> item (attribute name -> value)
    now,          \* the reading datetime.utcnow() would return
    last,         \* the last ledger call: its arguments and what it returned
    callers,      \* SpecConc: each concurrent caller's position and arguments
    ou,           \* the OU hierarchy, the target name and the resolver's result
    mv,           \* SpecMigrate: the attempt of a migrate command
    pipelines,    \* SpecStatus: what the Pipeline Service answers
    view          \* SpecStatus: what the last status command displayed

\* The variables of the migrate and status commands.
others == <<mv, pipelines, view>>

vars == <<tableExists, table, now, last, callers, ou, mv, pipelines, view>>

----------------------------------------------------------------------------
(* Bounds *)

\* Highest clock reading.
MaxClock == 1

\* Largest number of caller-given fields in one update call.
MaxUpdKeys == 1

\* Largest Limit passed to list_account_requests.
MaxLimit == 1

\* Largest number of organizational units in a hierarchy.
MaxOUs == 4

\* Largest page size of the child listing.
MaxPage == 2

\* Largest number of organizational units in the hierarchy of a migrate
\* attempt.
MaxMoveOUs == 2

\* Largest number of list_ous runs on one hierarchy.
MaxRuns == 2

\* The depth of nested find_ou_by_name calls at which the interpreter raises
\* RecursionError (sys.getrecursionlimit(), scaled down).
RecursionLimit == 2

----------------------------------------------------------------------------
(* Values *)

RequestIds == {"req-1", "req-2"}
ClientIds == {"acme", "beta"}

\* The item of an absent record (get_item's missing "Item", Python's None).
NoItem == [k \in {} |-> 0]

\* dict.update: the entries of g override those of f.
Merge(f, g) ==
    [k \in (DOMAIN f) \cup (DOMAIN g) |-> IF k \in DOMAIN g THEN g[k] ELSE f[k]]

\* The attributes a record is created with and that the data model calls
\* immutable.
ImmutableFields == {"template", "email", "name", "client_id", "target_ou"}

\* The constructor arguments of an AccountRequest, as migrate.account passes
\* them.
RequestArgs ==
    [request_id : RequestIds, email : {"a@x.io"}, client_id : ClientIds,
     name : {"account"}, ou : {"Sandbox"}, customizations : {NoItem}]

\* AccountRequest(...): a new request is pending and carries the time of its
\* construction.
AccountRequest(args, t) ==
    [request_id |-> args.request_id,
     template |-> "client",
     email |-> args.email,
     name |-> args.name,
     client_id |-> args.client_id,
     ou |-> args.ou,
     customizations |-> args.customizations,
     status |-> "pending",
     created |-> t]

\* AccountRequest.to_dict: the persisted shape of a request.
to_dict(r) ==
    [request_id |-> r.request_id,
     template |-> r.template,
     email |-> r.email,
     name |-> r.name,
     client_id |-> r.client_id,
     target_ou |-> r.ou,
     customizations |-> r.customizations,
     status |-> r.status,
     updated_date |-> r.created]

\* The field sets a caller may hand to update_account_request.
UpdKeys == {"status", "email"}

UpdVals(k) ==
    CASE k = "status" -> {"completed"}
      [] k = "email" -> {"b@x.io"}
      [] k = "account_id" -> {"111122223333"}
      [] k = "error_message" -> {"denied"}

AllUpdVals == UNION {UpdVals(k) : k \in UpdKeys}

Updates ==
    UNION {{u \in [K -> AllUpdVals] : \A k \in K : u[k] \in UpdVals(k)} :
           K \in {S \in SUBSET UpdKeys : Cardinality(S) <= MaxUpdKeys}}

----------------------------------------------------------------------------
(* The DynamoDB table operations the manager calls *)

\* table.put_item(Item=item): writes the item under its key, replacing any
\* item already stored under it (no ConditionExpression is passed).
put_item(tbl, item) ==
    [k \in (DOMAIN tbl) \cup {item.request_id} |->
        IF k = item.request_id THEN item ELSE tbl[k]]

\* Mutant: the response is read under the wrong key.
get_item_wrong_key(tbl, id) == NoItem

\* table.get_item(Key=...).get("Item")
get_item(tbl, id) == IF id \in DOMAIN tbl THEN tbl[id] ELSE NoItem

\* Mutant: the item is written whole, as put_item would write it.
update_item_replace(tbl, id, sets) ==
    [k \in (DOMAIN tbl) \cup {id} |->
        IF k = id THEN Merge([request_id |-> id], sets) ELSE tbl[k]]

\* table.update_item(Key=..., UpdateExpression="SET k = :k, ..."): one atomic
\* step that sets the named attributes of the item and leaves its others
\* alone; with no ConditionExpression it creates the item when it is absent.
update_item(tbl, id, sets) ==
    [k \in (DOMAIN tbl) \cup {id} |->
        IF k = id
        THEN Merge(IF id \in DOMAIN tbl THEN tbl[id] ELSE [request_id |-> id], sets)
        ELSE tbl[k]]

\* table.delete_item(Key=...): removes the item; no error when it is absent.
delete_item(tbl, id) == [k \in (DOMAIN tbl) \ {id} |-> tbl[k]]


----------------------------------------------------------------------------
(* Listing: the secondary index and the scan *)

\* An absent filter: Python's None (or an empty string), false in
\* "if client_id and status".
NoFilter == ""

FilterStatuses == {"pending", "completed"}

\* The orders in which the store may hold the items.
StoreOrders ==
    {o \in [1..Cardinality(RequestIds) -> RequestIds] :
        \A i, j \in DOMAIN o : i # j => o[i] # o[j]}

\* The first n elements of s.
Take(s, n) == SubSeq(s, 1, IF n < Len(s) THEN n ELSE Len(s))

\* The sort key of client-status-index orders strings by their bytes.
StatusRank(s) ==
    CASE s = "completed" -> 1
      [] s = "failed" -> 2
      [] s = "in_progress" -> 3
      [] s = "pending" -> 4

RECURSIVE InsertByStatus(_, _)
InsertByStatus(sorted, item) ==
    IF sorted = <<>> THEN <<item>>
    ELSE IF StatusRank(item.status) < StatusRank(Head(sorted).status)
         THEN <<item>> \o sorted
         ELSE <<Head(sorted)>> \o InsertByStatus(Tail(sorted), item)

RECURSIVE SortByStatus(_)
SortByStatus(items) ==
    IF items = <<>> THEN <<>>
    ELSE InsertByStatus(SortByStatus(SubSeq(items, 1, Len(items) - 1)),
                        items[Len(items)])

\* The items of the table in store order.
StoredItems(tbl, ord) ==
    LET ids == SelectSeq(ord, LAMBDA id : id \in DOMAIN tbl)
    IN  [i \in 1..Len(ids) |-> tbl[ids[i]]]

\* The partition of client-status-index for one client_id: the items that
\* have both key attributes, in sort-key order.
IndexPartition(tbl, ord, client) ==
    SortByStatus(SelectSeq(StoredItems(tbl, ord),
        LAMBDA it : /\ {"client_id", "status"} \subseteq DOMAIN it
                    /\ it.client_id = client))

\* Mutant: the query is sent without Limit.
query_unlimited(tbl, ord, client, status, limit) ==
    SelectSeq(IndexPartition(tbl, ord, client),
              LAMBDA it : status = NoFilter \/ it.status = status)

\* table.query(IndexName="client-status-index", KeyConditionExpression=...,
\* Limit=limit): at most `limit` items of the partition that meet the key
\* condition, in index order.
query(tbl, ord, client, status, limit) ==
    Take(SelectSeq(IndexPartition(tbl, ord, client),
                   LAMBDA it : status = NoFilter \/ it.status = status),
         limit)

\* table.scan(Limit=limit[, FilterExpression="#status = :status"]): Limit
\* bounds the items read; the filter is applied to the items read.
scan(tbl, ord, status, limit) ==
    SelectSeq(Take(StoredItems(tbl, ord), limit),
        LAMBDA it : \/ status = NoFilter
                    \/ ("status" \in DOMAIN it /\ it.status = status))

\* The body of list_account_requests after _get_table.
list_items(tbl, ord, client, status, limit) ==
    IF client # NoFilter /\ status # NoFilter
    THEN query(tbl, ord, client, status, limit)
    ELSE IF client # NoFilter
         THEN query(tbl, ord, client, NoFilter, limit)
         ELSE scan(tbl, ord, status, limit)

----------------------------------------------------------------------------
(* The ledger operations of AFTManager *)

\* The record of a call: what it was given and what it returned.
\*   existed  : the request_id was in the table when the call started
\*   afterPut : the call before this one was a put of the same request_id,
\*              which was not in the table before that put
\*   repeat   : the call before this one was an update of a record that
\*              existed, with the same request_id and the same fields
Call(op, id) ==
    [op |-> op, id |-> id, upd |-> NoItem, existed |-> id \in DOMAIN table,
     ok |-> TRUE, found |-> FALSE, item |-> NoItem,
     client |-> NoFilter, status |-> NoFilter, limit |-> 0, items |-> <<>>,
     created |-> ~tableExists,
     afterPut |-> (last.op = "put" /\ last.id = id /\ ~last.existed),
     repeat |-> FALSE]

\* _get_table: loads the table and, when it does not exist, creates it.
_get_table == tableExists' = TRUE

\* Mutant: the timestamp is not added to the updates.
Stamp_forgotten(updates, t) == updates

\* updates["updated_date"] = datetime.utcnow().isoformat()
Stamp(updates, t) == Merge(updates, [updated_date |-> t])

create_account_request(args) ==
    LET item == to_dict(AccountRequest(args, now))
    IN  /\ _get_table
        /\ table' = put_item(table, item)
        /\ last' = [Call("put", args.request_id) EXCEPT !.item = item]
        /\ UNCHANGED <<now, callers, ou, others>>

\* Mutant: reading a record stamps it.
get_account_request_touch(request_id) ==
    /\ _get_table
    /\ table' = update_item(table, request_id, [updated_date |-> now])
    /\ last' = [Call("get", request_id) EXCEPT
                   !.item = get_item(table, request_id),
                   !.found = (get_item(table, request_id) # NoItem)]
    /\ UNCHANGED <<now, callers, ou, others>>

get_account_request(request_id) ==
    /\ _get_table
    /\ last' = [Call("get", request_id) EXCEPT
                   !.item = get_item(table, request_id),
                   !.found = (get_item(table, request_id) # NoItem)]
    /\ UNCHANGED <<table, now, callers, ou, others>>

list_account_requests(client_id, status, limit, ord) ==
    /\ _get_table
    /\ last' = [Call("list", "") EXCEPT
                   !.client = client_id, !.status = status, !.limit = limit,
                   !.afterPut = FALSE,
                   !.items = list_items(table, ord, client_id, status, limit)]
    /\ UNCHANGED <<table, now, callers, ou, others>>

update_account_request(request_id, updates) ==
    /\ _get_table
    /\ table' = update_item(table, request_id, Stamp(updates, now))
    /\ last' = [Call("update", request_id) EXCEPT
                   !.upd = updates,
                   !.repeat = (/\ last.op = "update"
                               /\ last.existed
                               /\ last.id = request_id
                               /\ last.upd = updates)]
    /\ UNCHANGED <<now, callers, ou, others>>

\* Mutant: the delete is conditional on the item existing.
delete_account_request_strict(request_id) ==
    /\ _get_table
    /\ table' = delete_item(table, request_id)
    /\ last' = [Call("delete", request_id) EXCEPT
                   !.ok = (request_id \in DOMAIN table)]
    /\ UNCHANGED <<now, callers, ou, others>>

delete_account_request(request_id) ==
    /\ _get_table
    /\ table' = delete_item(table, request_id)
    /\ last' = Call("delete", request_id)
    /\ UNCHANGED <<now, callers, ou, others>>

\* Time passes between two calls.
Tick ==
    /\ now < MaxClock
    /\ now' = now + 1
    /\ UNCHANGED <<tableExists, table, last, callers, ou, others>>

NoCall ==
    [op |-> "none", id |-> "", upd |-> NoItem, existed |-> FALSE,
     ok |-> TRUE, found |-> FALSE, item |-> NoItem,
     client |-> NoFilter, status |-> NoFilter, limit |-> 0, items |-> <<>>,
     created |-> FALSE, afterPut |-> FALSE, repeat |-> FALSE]

Idle == [k \in {} |-> 0]

Init ==
    /\ tableExists \in BOOLEAN
    /\ table = [k \in {} |-> NoItem]
    /\ now = 0
    /\ last = NoCall
    /\ callers = Idle
    /\ ou = Idle
    /\ mv = Idle /\ pipelines = Idle /\ view = Idle

Next ==
    \/ \E args \in RequestArgs : create_account_request(args)
    \/ \E id \in RequestIds : get_account_request(id)
    \/ \E c \in ClientIds \cup {NoFilter}, s \in FilterStatuses \cup {NoFilter},
          n \in 1..MaxLimit, ord \in StoreOrders :
            list_account_requests(c, s, n, ord)
    \/ \E id \in RequestIds, u \in Updates : update_account_request(id, u)
    \/ \E id \in RequestIds : delete_account_request(id)
    \/ Tick

Spec == Init /\ [][Next]_vars


----------------------------------------------------------------------------
(* Two callers inside update_account_request at once *)

Callers == {"caller-1", "caller-2"}

\* The record both callers update.
SharedId == "req-1"

\* The field sets of the concurrent callers.
ConcUpdKeys == {"status", "account_id", "error_message", "email"}

ConcUpdates ==
    UNION {{u \in [K -> UNION {UpdVals(k) : k \in ConcUpdKeys}] :
                \A k \in K : u[k] \in UpdVals(k)} :
           K \in {S \in SUBSET ConcUpdKeys :
                    S # {} /\ Cardinality(S) <= MaxUpdKeys}}

\* Lines 165-196: the caller gets the table, stamps its updates and builds
\* the SET expression from them; nothing is read from the stored item.
BuildUpdate(c) ==
    /\ callers[c].pc = "start"
    /\ _get_table
    /\ callers' = [callers EXCEPT ![c].pc = "built",
                                  ![c].sets = Stamp(callers[c].upd, now)]
    /\ UNCHANGED <<table, now, last, ou, others>>

\* Line 198: table.update_item(**kwargs), one atomic write to the item.
SendUpdate(c) ==
    /\ callers[c].pc = "built"
    /\ table' = update_item(table, SharedId, callers[c].sets)
    /\ callers' = [callers EXCEPT ![c].pc = "done"]
    /\ UNCHANGED <<tableExists, now, last, ou, others>>

InitConc ==
    /\ tableExists = TRUE
    /\ \E args \in RequestArgs :
          /\ args.request_id = SharedId
          /\ table = put_item([k \in {} |-> NoItem],
                              to_dict(AccountRequest(args, 0)))
    /\ now = 0
    /\ last = NoCall
    /\ callers \in
          {f \in [Callers -> [pc : {"start"}, upd : ConcUpdates, sets : {NoItem}]] :
              \A c, d \in Callers :
                 c # d => (DOMAIN f[c].upd) \cap (DOMAIN f[d].upd) = {}}
    /\ ou = Idle
    /\ mv = Idle /\ pipelines = Idle /\ view = Idle

NextConc ==
    \/ \E c \in Callers : BuildUpdate(c)
    \/ \E c \in Callers : SendUpdate(c)
    \/ Tick

SpecConc == InitConc /\ [][NextConc]_vars

----------------------------------------------------------------------------
(* The OU resolver of the migrate commands *)

\* roots["Roots"][0]["Id"]
RootId == 0

\* Python's None, returned when no OU matches.
NoOu == -1

OuNames == {"Sandbox", "sandbox", "Dev"}
TargetNames == {"Sandbox", "Prod"}

\* str.lower()
Lower(name) ==
    CASE name = "Sandbox" -> "sandbox"
      [] name = "Dev" -> "dev"
      [] name = "Prod" -> "prod"
      [] name = "Prod-App" -> "prod-app"
      [] OTHER -> name

\* The hierarchies of n units: unit i is listed under parent[i], and the
\* service lists the children of a node in increasing order of i.
Hierarchies(n) ==
    {par \in [1..n -> 0..n] : \A i \in 1..n : par[i] < i}

RECURSIVE ChildrenFrom(_, _, _)
ChildrenFrom(par, p, i) ==
    IF i > Len(par) THEN <<>>
    ELSE (IF par[i] = p THEN <<i>> ELSE <<>>) \o ChildrenFrom(par, p, i + 1)

\* list_organizational_units_for_parent(ParentId=p), before pagination.
Listing(par) == [p \in 0..Len(par) |-> ChildrenFrom(par, p, 1)]

\* paginator.paginate(ParentId=...): the listing cut into pages of at most
\* `size` units; an empty listing is one empty page.
Paginate(listing, size) ==
    LET n == IF listing = <<>> THEN 1 ELSE (Len(listing) + size - 1) \div size
    IN  [i \in 1..n |->
            SubSeq(listing, (i - 1) * size + 1,
                   IF i * size < Len(listing) THEN i * size ELSE Len(listing))]

\* The loops of simple.find_ou_by_name from unit oi of page pi of the
\* listing of parent_id: case-insensitive comparison, then the subtree of
\* the unit, then the next unit.
RECURSIVE find_simple_from(_, _, _, _)
find_simple_from(parent_id, ou_name, pi, oi) ==
    LET pages == Paginate(ou.kids[parent_id], ou.page)
    IN  IF pi > Len(pages) THEN NoOu
        ELSE IF oi > Len(pages[pi])
             THEN find_simple_from(parent_id, ou_name, pi + 1, 1)
             ELSE LET o == pages[pi][oi]
                  IN  IF Lower(ou.names[o]) = Lower(ou_name) THEN o
                      ELSE LET child_ou_id == find_simple_from(o, ou_name, 1, 1)
                           IN  IF child_ou_id # NoOu THEN child_ou_id
                               ELSE find_simple_from(parent_id, ou_name, pi, oi + 1)

\* Mutant: every unit of a page is compared before any subtree is searched.
RECURSIVE find_simple_siblings_first(_, _, _, _)
find_simple_siblings_first(parent_id, ou_name, pi, oi) ==
    LET pages == Paginate(ou.kids[parent_id], ou.page)
    IN  IF pi > Len(pages) THEN NoOu
        ELSE IF oi > Len(pages[pi])
             THEN find_simple_siblings_first(parent_id, ou_name, pi + 1, 1)
             ELSE LET hits == SelectSeq(pages[pi],
                                LAMBDA o : Lower(ou.names[o]) = Lower(ou_name))
                      child_ou_id ==
                          find_simple_siblings_first(pages[pi][oi], ou_name, 1, 1)
                  IN  IF hits # <<>> THEN hits[1]
                      ELSE IF child_ou_id # NoOu THEN child_ou_id
                           ELSE find_simple_siblings_first(parent_id, ou_name,
                                                           pi, oi + 1)

\* Mutant of simple.find_ou_by_name.
find_ou_by_name_simple_siblings_first(parent_id, ou_name) ==
    find_simple_siblings_first(parent_id, ou_name, 1, 1)

\* simple.find_ou_by_name(parent_id, ou_name)
find_ou_by_name_simple(parent_id, ou_name) ==
    find_simple_from(parent_id, ou_name, 1, 1)

\* The loops of existing_ou.find_ou_by_name: as above with an exact
\* comparison of the names.
RECURSIVE find_existing_ou_from(_, _, _, _)
find_existing_ou_from(parent_id, ou_name, pi, oi) ==
    LET pages == Paginate(ou.kids[parent_id], ou.page)
    IN  IF pi > Len(pages) THEN NoOu
        ELSE IF oi > Len(pages[pi])
             THEN find_existing_ou_from(parent_id, ou_name, pi + 1, 1)
             ELSE LET o == pages[pi][oi]
                  IN  IF ou.names[o] = ou_name THEN o
                      ELSE LET child_ou_id == find_existing_ou_from(o, ou_name, 1, 1)
                           IN  IF child_ou_id # NoOu THEN child_ou_id
                               ELSE find_existing_ou_from(parent_id, ou_name,
                                                          pi, oi + 1)

\* existing_ou.find_ou_by_name(parent_id, ou_name)
find_ou_by_name_existing_ou(parent_id, ou_name) ==
    find_existing_ou_from(parent_id, ou_name, 1, 1)

\* simple: target_ou_id = find_ou_by_name(root_id, target)
ResolveSimple ==
    /\ ou.pc = "start"
    /\ ou' = [ou EXCEPT !.pc = "resolved", !.cmd = "simple",
                        !.target_ou_id = find_ou_by_name_simple(RootId, ou.target)]
    /\ UNCHANGED <<tableExists, table, now, last, callers, others>>

\* existing_ou: target_ou_id = find_ou_by_name(root_id, target_ou)
ResolveExistingOu ==
    /\ ou.pc = "start"
    /\ ou' = [ou EXCEPT !.pc = "resolved", !.cmd = "existing_ou",
                        !.target_ou_id =
                            find_ou_by_name_existing_ou(RootId, ou.target)]
    /\ UNCHANGED <<tableExists, table, now, last, callers, others>>

InitOU ==
    /\ tableExists = TRUE
    /\ table = [k \in {} |-> NoItem]
    /\ now = 0
    /\ last = NoCall
    /\ callers = Idle
    /\ mv = Idle /\ pipelines = Idle /\ view = Idle
    /\ \E n \in 0..MaxOUs :
         \E par \in Hierarchies(n), names \in [1..n -> OuNames],
            size \in 1..MaxPage, target \in TargetNames :
              ou = [kids |-> Listing(par), names |-> names, page |-> size,
                    target |-> target, pc |-> "start", cmd |-> "",
                    target_ou_id |-> NoOu]

NextOU ==
    \/ ResolveSimple
    \/ ResolveExistingOu

SpecOU == InitOU /\ [][NextOU]_vars

----------------------------------------------------------------------------
(* The migrate commands: existing_ou, simple and account *)

MoveCommands == {"existing_ou", "simple"}

\* The accounts of the organization, in the order list_accounts returns them.
Accounts ==
    <<[Id |-> "111111111111", Name |-> "Prod-App"],
      [Id |-> "222222222222", Name |-> "prod-app"]>>

\* What the operator may give as --source / --account-id.
Sources == {"111111111111", "333333333333", "prod-app", "ghost"}

\* source.isdigit() and len(source) == 12
IsAccountId(source) == source \in {"111111111111", "222222222222", "333333333333"}

\* Python's None for an account id.
NoAccount == ""

\* describe_account(AccountId=id) succeeds for an account of the organization.
AccountExists(id) == \E i \in 1..Len(Accounts) : Accounts[i].Id = id

\* The search loop of simple over list_accounts: the first account whose
\* name equals the source when letter case is ignored.
FindAccountByName(source) ==
    LET hits == SelectSeq(Accounts, LAMBDA a : Lower(a.Name) = Lower(source))
    IN  IF hits = <<>> THEN NoAccount ELSE hits[1].Id

\* The ids uuid4 may yield for a migration request.
MigrationIds == {"migrate-2025-01-10-abc12345", "migrate-2025-01-10-0f0f0f0f"}

\* The arguments of the AccountRequest built by account.
MigrationArgs(request_id, account_id) ==
    [request_id |-> request_id,
     email |-> "a@x.io",
     client_id |-> "migrated",
     name |-> "account",
     ou |-> "Sandbox",
     customizations |->
        [migration_source |-> "existing_account",
         original_account_id |-> account_id,
         migration_type |-> "ou_change"]]

\* The attempt ends with an outcome.
End(outcome) == [mv EXCEPT !.pc = "done", !.outcome = outcome]

\* The input checks at the top of the commands; simple has none.
Validate ==
    /\ mv.pc = "validate"
    /\ mv' = IF mv.cmd = "simple"
             THEN [mv EXCEPT !.pc = "account"]
             ELSE IF ~IsAccountId(mv.source) \/ ~mv.valid
                  THEN End("Invalid")
                  ELSE [mv EXCEPT !.account_id = mv.source,
                                  !.pc = IF mv.cmd = "account" THEN "plan"
                                         ELSE "account"]
    /\ UNCHANGED <<tableExists, table, now, last, callers, ou, pipelines, view>>

\* The account lookup: describe_account for an id, the search of
\* list_accounts for a name. `ok` is whether the Directory Service answers.
FindAccount(ok) ==
    /\ mv.pc = "account"
    /\ mv' =
        IF mv.cmd = "existing_ou"
        THEN IF ok /\ AccountExists(mv.account_id)
             THEN [mv EXCEPT !.pc = "parent"]
             ELSE End("AccountError")
        ELSE IF IsAccountId(mv.source)
             THEN IF ok /\ AccountExists(mv.source)
                  THEN [mv EXCEPT !.account_id = mv.source, !.pc = "target"]
                  ELSE [End("AccountNotFound") EXCEPT !.account_id = mv.source]
             ELSE IF ~ok THEN End("AccountError")
                  ELSE IF FindAccountByName(mv.source) = NoAccount
                       THEN End("AccountNotFound")
                       ELSE [mv EXCEPT !.account_id = FindAccountByName(mv.source),
                                       !.pc = "target"]
    /\ UNCHANGED <<tableExists, table, now, last, callers, ou, pipelines, view>>

\* list_parents(ChildId=account_id): it fails, or answers with no parent, or
\* with the parent of the account.
GetParent(answer) ==
    /\ mv.pc = "parent"
    /\ mv' =
        IF answer = "fail" THEN End("ParentError")
        ELSE [mv EXCEPT
                !.current_parent = IF answer = "empty" THEN NoOu ELSE mv.parent,
                !.pc = IF mv.cmd = "existing_ou" THEN "target" ELSE "plan"]
    /\ UNCHANGED <<tableExists, table, now, last, callers, ou, pipelines, view>>

\* Mutant: the result of the search is not checked.
FindTarget_unchecked(ok) ==
    /\ mv.pc = "target"
    /\ LET found == IF mv.cmd = "simple"
                    THEN find_ou_by_name_simple(RootId, ou.target)
                    ELSE find_ou_by_name_existing_ou(RootId, ou.target)
       IN  mv' = IF ~ok THEN End("OUError")
                 ELSE [mv EXCEPT
                         !.target_ou_id = found,
                         !.pc = IF mv.cmd = "existing_ou" THEN "plan" ELSE "parent"]
    /\ UNCHANGED <<tableExists, table, now, last, callers, ou, pipelines, view>>

\* list_roots and find_ou_by_name(root_id, target), then the not-found
\* check. `ok` is whether the Directory Service answers every listing call.
FindTarget(ok) ==
    /\ mv.pc = "target"
    /\ LET found == IF mv.cmd = "simple"
                    THEN find_ou_by_name_simple(RootId, ou.target)
                    ELSE find_ou_by_name_existing_ou(RootId, ou.target)
       IN  mv' = IF ~ok THEN End("OUError")
                 ELSE IF found = NoOu THEN End("OUNotFound")
                 ELSE [mv EXCEPT
                         !.target_ou_id = found,
                         !.pc = IF mv.cmd = "existing_ou" THEN "plan" ELSE "parent"]
    /\ UNCHANGED <<tableExists, table, now, last, callers, ou, pipelines, view>>

\* Mutant: the dry-run branch does not return.
ShowPlan_falls_through ==
    /\ mv.pc = "plan"
    /\ mv' = [mv EXCEPT !.pc = "confirm"]
    /\ UNCHANGED <<tableExists, table, now, last, callers, ou, pipelines, view>>

\* The plan is displayed; in dry-run mode the command prints what it would
\* execute and returns. With no current parent, current_parent['Id'] in
\* that message raises and the outer handler reports an error.
ShowPlan ==
    /\ mv.pc = "plan"
    /\ mv' = IF mv.dry_run
             THEN IF mv.cmd \in MoveCommands /\ mv.current_parent = NoOu
                  THEN End("Error")
                  ELSE End("DryRunReported")
             ELSE [mv EXCEPT !.pc = "confirm"]
    /\ UNCHANGED <<tableExists, table, now, last, callers, ou, pipelines, view>>

\* Mutant: the answer of the operator is not looked at.
Confirm_ignored(answer) ==
    /\ mv.pc = "confirm"
    /\ mv' = [mv EXCEPT !.asked = TRUE, !.confirmed = answer, !.pc = "execute"]
    /\ UNCHANGED <<tableExists, table, now, last, callers, ou, pipelines, view>>

\* click.confirm(...): the operator answers; a refusal ends the attempt.
Confirm(answer) ==
    /\ mv.pc = "confirm"
    /\ mv' = IF answer
             THEN [mv EXCEPT !.asked = TRUE, !.confirmed = TRUE, !.pc = "execute"]
             ELSE [End("Cancelled") EXCEPT !.asked = TRUE]
    /\ UNCHANGED <<tableExists, table, now, last, callers, ou, pipelines, view>>

\* Mutant: a failed move is tried again.
MoveAccount_retry(ok) ==
    /\ mv.pc = "execute" /\ mv.cmd \in MoveCommands
    /\ mv' = IF mv.current_parent = NoOu THEN End("Failed")
             ELSE IF ok
             THEN [End("Succeeded") EXCEPT !.moves = mv.moves + 1,
                                           !.parent = mv.target_ou_id]
             ELSE [mv EXCEPT !.moves = mv.moves + 1]
    /\ UNCHANGED <<tableExists, table, now, last, callers, ou, pipelines, view>>

\* Mutant: a missing parent is passed on as None.
MoveAccount_no_parent(ok) ==
    /\ mv.pc = "execute" /\ mv.cmd \in MoveCommands
    /\ mv' = IF ok
             THEN [End("Succeeded") EXCEPT !.moves = mv.moves + 1,
                                           !.parent = mv.target_ou_id]
             ELSE [End("Failed") EXCEPT !.moves = mv.moves + 1]
    /\ UNCHANGED <<tableExists, table, now, last, callers, ou, pipelines, view>>

\* orgs_client.move_account(AccountId, SourceParentId=current_parent["Id"],
\* DestinationParentId=target_ou_id) inside try/except: with no current
\* parent the subscript raises before the call is made; otherwise the call
\* is made once and either moves the account or raises.
MoveAccount(ok) ==
    /\ mv.pc = "execute" /\ mv.cmd \in MoveCommands
    /\ mv' = IF mv.current_parent = NoOu THEN End("Failed")
             ELSE IF ok
                  THEN [End("Succeeded") EXCEPT !.moves = mv.moves + 1,
                                                !.parent = mv.target_ou_id]
                  ELSE [End("Failed") EXCEPT !.moves = mv.moves + 1]
    /\ UNCHANGED <<tableExists, table, now, last, callers, ou, pipelines, view>>

\* Mutant: the request is written without its customizations.
CreateMigrationRequest_untagged(request_id, ok) ==
    /\ mv.pc = "execute" /\ mv.cmd = "account"
    /\ _get_table
    /\ table' = IF ok
                THEN put_item(table,
                        to_dict(AccountRequest(
                            [MigrationArgs(request_id, mv.account_id)
                                EXCEPT !.customizations = NoItem], now)))
                ELSE table
    /\ mv' = [End(IF ok THEN "Succeeded" ELSE "Failed")
                EXCEPT !.writes = mv.writes + 1, !.request_id = request_id]
    /\ UNCHANGED <<now, last, callers, ou, pipelines, view>>

\* account after the confirmation: the request id is generated, the
\* AccountRequest is built and create_account_request stores it with one
\* put_item; `ok` is whether the put succeeds (otherwise the method returns
\* success False and the command reports the failure).
CreateMigrationRequest(request_id, ok) ==
    /\ mv.pc = "execute" /\ mv.cmd = "account"
    /\ _get_table
    /\ table' = IF ok
                THEN put_item(table,
                        to_dict(AccountRequest(
                            MigrationArgs(request_id, mv.account_id), now)))
                ELSE table
    /\ mv' = [End(IF ok THEN "Succeeded" ELSE "Failed")
                EXCEPT !.writes = mv.writes + 1, !.request_id = request_id]
    /\ UNCHANGED <<now, last, callers, ou, pipelines, view>>

\* The ledgers an account migration may start from: empty, or holding the
\* request of an earlier migration.
EarlierLedgers ==
    {[k \in {} |-> NoItem]} \cup
    {put_item([k \in {} |-> NoItem],
              to_dict(AccountRequest(MigrationArgs(id, "111111111111"), 0))) :
        id \in MigrationIds}

InitMigrate ==
    /\ tableExists = TRUE
    /\ now = 0
    /\ last = NoCall
    /\ callers = Idle
    /\ pipelines = Idle /\ view = Idle
    /\ \E cmd \in MoveCommands \cup {"account"}, source \in Sources,
          dry_run \in BOOLEAN, valid \in BOOLEAN,
          n \in 0..MaxMoveOUs, target \in TargetNames :
         \E par \in Hierarchies(n), names \in [1..n -> OuNames], parent \in 0..n :
            /\ cmd = "account" => (n = 0 /\ target = "Sandbox")
            /\ table \in EarlierLedgers
            /\ cmd \in MoveCommands => table = [k \in {} |-> NoItem]
            /\ ou = [kids |-> Listing(par), names |-> names, page |-> 1,
                     target |-> target, pc |-> "start", cmd |-> cmd,
                     target_ou_id |-> NoOu]
            /\ mv = [cmd |-> cmd, source |-> source, dry_run |-> dry_run,
                     valid |-> valid, pc |-> "validate",
                     account_id |-> NoAccount, current_parent |-> NoOu,
                     target_ou_id |-> NoOu, parent |-> parent,
                     asked |-> FALSE, confirmed |-> FALSE,
                     moves |-> 0, writes |-> 0, request_id |-> "",
                     before |-> table, outcome |-> ""]

NextMigrate ==
    \/ Validate
    \/ \E ok \in BOOLEAN : FindAccount(ok)
    \/ \E answer \in {"fail", "empty", "ok"} : GetParent(answer)
    \/ \E ok \in BOOLEAN : FindTarget(ok)
    \/ ShowPlan
    \/ \E answer \in BOOLEAN : Confirm(answer)
    \/ \E ok \in BOOLEAN : MoveAccount(ok)
    \/ \E id \in MigrationIds, ok \in BOOLEAN : CreateMigrationRequest(id, ok)

SpecMigrate == InitMigrate /\ [][NextMigrate]_vars

----------------------------------------------------------------------------
(* The status commands: check and overview *)

\* list_account_requests(limit=10) in overview.
OverviewLimit == 10

\* The statuses a ledger record may carry.
LedgerStatuses == {"pending", "in_progress", "completed", "failed"}

\* What the Pipeline Service holds: it is unreachable, or it has no pipeline
\* whose name contains "aft", or it lists the statuses of the executions of
\* such a pipeline, freshest first.
PipelineOutcomes ==
    {[state |-> "error", executions |-> <<>>],
     [state |-> "none", executions |-> <<>>]} \cup
    {[state |-> "listed", executions |-> e] :
        e \in {<<>>, <<"InProgress">>, <<"Succeeded">>, <<"Failed", "InProgress">>}}

\* req.get('status', 'unknown')
StatusOf(item) == IF "status" \in DOMAIN item THEN item.status ELSE "unknown"

\* AFTManager.get_aft_status: the status object is built from the ledger
\* record of the request; the Pipeline Service is not asked.
get_aft_status(tbl, request_id) ==
    LET request == get_item(tbl, request_id)
    IN  IF request = NoItem THEN NoItem
        ELSE [request_id |-> request_id,
              pipeline_status |-> StatusOf(request)]

\* AFTManager.list_aft_pipelines as overview reads it.
list_aft_pipelines ==
    CASE pipelines.state = "error" -> "Error"
      [] pipelines.state = "none" -> "Missing"
      [] OTHER -> "Found"

\* What a status command displayed.
View(cmd, request_id) ==
    [cmd |-> cmd, request_id |-> request_id, found |-> FALSE,
     ledger_status |-> "", pipeline_status |-> "",
     total |-> 0, counts |-> [st \in LedgerStatuses |-> 0], aft |-> ""]

\* Mutant: check writes the status it displays back to the ledger.
check_reconciles(request_id) ==
    /\ _get_table
    /\ table' = update_item(table, request_id, [status |-> "in_progress"])
    /\ view' = View("check", request_id)
    /\ UNCHANGED <<now, last, callers, ou, mv, pipelines>>

\* lzaas status check --request-id ...
check(request_id) ==
    /\ _get_table
    /\ LET request_details == get_item(table, request_id)
           aft_status == get_aft_status(table, request_id)
       IN  view' = IF request_details = NoItem
                   THEN View("check", request_id)
                   ELSE [View("check", request_id) EXCEPT
                           !.found = TRUE,
                           !.ledger_status = StatusOf(request_details),
                           !.pipeline_status = aft_status.pipeline_status]
    /\ UNCHANGED <<table, now, last, callers, ou, mv, pipelines>>

\* lzaas status overview; `ord` is the order in which the scan reads the
\* stored items.
overview(ord) ==
    /\ _get_table
    /\ LET recent_requests ==
               list_items(table, ord, NoFilter, NoFilter, OverviewLimit)
       IN  view' = [View("overview", "") EXCEPT
                       !.total = Len(recent_requests),
                       !.counts = [st \in LedgerStatuses |->
                           Len(SelectSeq(recent_requests,
                                         LAMBDA it : StatusOf(it) = st))],
                       !.aft = list_aft_pipelines]
    /\ UNCHANGED <<table, now, last, callers, ou, mv, pipelines>>

\* The ledgers the status commands may find: each request absent, or created
\* and then possibly moved to a later status by an update.
StatusLedgers ==
    LET created(id) ==
            to_dict(AccountRequest(
                [request_id |-> id, email |-> "a@x.io", client_id |-> "acme",
                 name |-> "account", ou |-> "Sandbox",
                 customizations |-> NoItem], 0))
        stored(id, st) ==
            IF st = "pending" THEN created(id)
            ELSE Merge(created(id), [status |-> st, updated_date |-> 0])
    IN  {[id \in ids |-> stored(id, sts[id])] :
            ids \in SUBSET RequestIds, sts \in [RequestIds -> LedgerStatuses]}

InitStatus ==
    /\ table \in StatusLedgers
    /\ tableExists \in BOOLEAN
    /\ ~tableExists => table = [k \in {} |-> NoItem]
    /\ now = 0
    /\ last = NoCall
    /\ callers = Idle /\ ou = Idle /\ mv = Idle
    /\ pipelines \in PipelineOutcomes
    /\ view = Idle

NextStatus ==
    \/ \E request_id \in RequestIds : check(request_id)
    \/ \E ord \in StoreOrders : overview(ord)

SpecStatus == InitStatus /\ [][NextStatus]_vars

----------------------------------------------------------------------------
(* overview over ledgers larger than its limit *)

\* The request ids of a ledger with one record more than overview reads, in
\* the order of their creation.
SummaryIds ==
    <<"req-01", "req-02", "req-03", "req-04", "req-05", "req-06",
      "req-07", "req-08", "req-09", "req-10", "req-11">>

StatusCycle == <<"pending", "in_progress", "completed", "failed">>

\* The record of the i-th request: created at time i, never updated since,
\* its status the one an operator left it in. created_date is the
\* created_at of the persisted shape.
SummaryRecord(i, shift) ==
    Merge(to_dict(AccountRequest(
              [request_id |-> SummaryIds[i], email |-> "a@x.io",
               client_id |-> "acme", name |-> "account", ou |-> "Sandbox",
               customizations |-> NoItem], i)),
          [created_date |-> i,
           status |-> StatusCycle[((i + shift) % Len(StatusCycle)) + 1]])

\* The ledgers: the first n requests, for every n up to all of them.
SummaryLedgers ==
    {[id \in {SummaryIds[i] : i \in 1..n} |->
        SummaryRecord(CHOOSE i \in 1..n : SummaryIds[i] = id, shift)] :
        n \in 0..Len(SummaryIds), shift \in 0..(Len(StatusCycle) - 1)}

\* The orders in which a scan may read the items: the hash of the key
\* decides, not the time of creation.
ScanOrders ==
    LET n == Len(SummaryIds)
        rot(r) == [i \in 1..n |-> SummaryIds[((i + r - 1) % n) + 1]]
        rev(o) == [i \in 1..n |-> o[n + 1 - i]]
    IN  {rot(r) : r \in 0..(n - 1)} \cup {rev(rot(r)) : r \in 0..(n - 1)}

InitSummary ==
    /\ table \in SummaryLedgers
    /\ tableExists = TRUE
    /\ now = 0
    /\ last = NoCall
    /\ callers = Idle /\ ou = Idle /\ mv = Idle
    /\ pipelines \in PipelineOutcomes
    /\ view = Idle

NextSummary == \E ord \in ScanOrders : overview(ord)

SpecSummary == InitSummary /\ [][NextSummary]_vars

----------------------------------------------------------------------------
(* The ledger under status updates *)

\* The status values a caller may hand to update_account_request: the
\* method takes any dict, so any string.
CallerStatuses == {"in_progress", "failed", "archived"}

StatusUpdates == {[status |-> st] : st \in CallerStatuses}

NextLifecycle ==
    \/ \E args \in RequestArgs : create_account_request(args)
    \/ \E id \in RequestIds, u \in StatusUpdates : update_account_request(id, u)
    \/ \E id \in RequestIds : delete_account_request(id)

SpecLifecycle == Init /\ [][NextLifecycle]_vars

----------------------------------------------------------------------------
(* list_ous: the inventory of the hierarchy *)

\* No listing call fails.
NoFail == [node |-> NoOu, page |-> 0]

\* The listing call that raises: the fetch of page `page` of the children of
\* `node`.
FailPoints(n) ==
    {NoFail} \cup {[node |-> p, page |-> k] : p \in 0..n, k \in 1..MaxPage}

\* ou["Name"] of unit i.
NameOf(i) == IF i % 2 = 1 THEN "Sandbox" ELSE "Dev"

\* One entry of the inventory.
Entry(o, level) == [id |-> o, name |-> ou.names[o], level |-> level]

\* Mutant: the level is not passed down.
RECURSIVE get_ous_flat_from(_, _, _, _)
get_ous_flat_from(parent_id, level, pi, oi) ==
    LET pages == Paginate(ou.kids[parent_id], ou.page)
    IN  IF pi > Len(pages) THEN <<>>
        ELSE IF oi = 1 /\ ou.fail = [node |-> parent_id, page |-> pi] THEN <<>>
        ELSE IF oi > Len(pages[pi])
             THEN get_ous_flat_from(parent_id, level, pi + 1, 1)
             ELSE LET o == pages[pi][oi]
                  IN  <<Entry(o, level)>>
                        \o get_ous_flat_from(o, level, 1, 1)
                        \o get_ous_flat_from(parent_id, level, pi, oi + 1)

\* Mutant of get_ous_recursive.
get_ous_recursive_flat(parent_id, level) ==
    get_ous_flat_from(parent_id, level, 1, 1)

\* The loops of get_ous_recursive from unit oi of page pi of the listing of
\* parent_id: the unit is appended, then the inventory of its subtree, then
\* the loop goes on. A listing call that raises ends the loops of this
\* parent: the except clause prints a warning and the units collected so
\* far are returned.
RECURSIVE get_ous_from(_, _, _, _)
get_ous_from(parent_id, level, pi, oi) ==
    LET pages == Paginate(ou.kids[parent_id], ou.page)
    IN  IF pi > Len(pages) THEN <<>>
        ELSE IF oi = 1 /\ ou.fail = [node |-> parent_id, page |-> pi] THEN <<>>
        ELSE IF oi > Len(pages[pi])
             THEN get_ous_from(parent_id, level, pi + 1, 1)
             ELSE LET o == pages[pi][oi]
                  IN  <<Entry(o, level)>>
                        \o get_ous_from(o, level + 1, 1, 1)
                        \o get_ous_from(parent_id, level, pi, oi + 1)

\* list_ous.get_ous_recursive(parent_id, parent_name, level)
get_ous_recursive(parent_id, level) == get_ous_from(parent_id, level, 1, 1)

\* lzaas migrate list-ous; `ok` is whether list_roots answers. The command
\* prints the inventory, or the error of the outer handler.
list_ous(ok) ==
    /\ ou.runs < MaxRuns
    /\ ou' = [ou EXCEPT
                !.runs = ou.runs + 1,
                !.prev_ous = ou.all_ous,
                !.prev_outcome = ou.outcome,
                !.all_ous = IF ok THEN get_ous_recursive(RootId, 0) ELSE <<>>,
                !.outcome = IF ok THEN "listed" ELSE "error"]
    /\ UNCHANGED <<tableExists, table, now, last, callers, others>>

InitListOus ==
    /\ tableExists = TRUE
    /\ table = [k \in {} |-> NoItem]
    /\ now = 0
    /\ last = NoCall
    /\ callers = Idle
    /\ mv = Idle /\ pipelines = Idle /\ view = Idle
    /\ \E n \in 0..MaxOUs :
         \E par \in Hierarchies(n), size \in 1..MaxPage, fail \in FailPoints(n) :
            ou = [kids |-> Listing(par), names |-> [i \in 1..n |-> NameOf(i)],
                  page |-> size, fail |-> fail, runs |-> 0,
                  all_ous |-> <<>>, outcome |-> "",
                  prev_ous |-> <<>>, prev_outcome |-> ""]

NextListOus == \E ok \in BOOLEAN : list_ous(ok)

SpecListOus == InitListOus /\ [][NextListOus]_vars

----------------------------------------------------------------------------
(* find_ou_by_name call by call: the listing calls and the call stack *)

\* A listing the Directory Service may return that is not a tree: unit
\* `from` lists unit `to` after its own children.
NoBackEdge == [from |-> NoOu, to |-> NoOu]

BackEdges(n) == {NoBackEdge} \cup {[from |-> u, to |-> v] : u, v \in 1..n}

WithBackEdge(kids, back) ==
    IF back = NoBackEdge THEN kids
    ELSE [kids EXCEPT ![back.from] = Append(@, back.to)]

\* The frame of one find_ou_by_name(parent_id, ou_name) call: the page and
\* the unit its loops are at, and whether that page has been fetched.
Frame(parent_id) == [parent |-> parent_id, pi |-> 1, oi |-> 1, fetched |-> FALSE]

Top == ou.stack[Len(ou.stack)]

PagesOf(parent_id) == Paginate(ou.kids[parent_id], ou.page)

\* The comparison of the command that runs the search.
NameMatches(o) ==
    IF ou.cmd = "simple" THEN Lower(ou.names[o]) = Lower(ou.target)
    ELSE ou.names[o] = ou.target

\* for page in paginator.paginate(ParentId=parent_id): the paginator calls
\* the Directory Service for the next page when the loop asks for it. A call
\* that raises ends the search in the handler of the command.
ListPage(ok) ==
    /\ ou.pc = "walk" /\ ~Top.fetched
    /\ ou' = IF ok
             THEN [ou EXCEPT !.stack[Len(ou.stack)].fetched = TRUE,
                             !.calls = ou.calls + 1]
             ELSE [ou EXCEPT !.pc = "error", !.error = "ClientError",
                             !.outcome = "OUError", !.stack = <<>>,
                             !.calls = ou.calls + 1]
    /\ UNCHANGED <<tableExists, table, now, last, callers, others>>

\* The body of the inner loop: the unit is compared and returned on a match
\* (every caller returns it in turn); otherwise find_ou_by_name is called on
\* the unit, which raises RecursionError when the stack is full.
Visit ==
    /\ ou.pc = "walk" /\ Top.fetched
    /\ Top.oi <= Len(PagesOf(Top.parent)[Top.pi])
    /\ LET o == PagesOf(Top.parent)[Top.pi][Top.oi]
       IN  ou' = IF NameMatches(o)
                 THEN [ou EXCEPT !.pc = "found", !.target_ou_id = o,
                                 !.stack = <<>>]
                 ELSE IF Len(ou.stack) < RecursionLimit
                      THEN [ou EXCEPT !.stack = Append(@, Frame(o))]
                      ELSE [ou EXCEPT !.pc = "error", !.error = "RecursionError",
                                      !.outcome = "OUError", !.stack = <<>>]
    /\ UNCHANGED <<tableExists, table, now, last, callers, others>>

\* The inner loop is over and the listing has a further page.
NextPage ==
    /\ ou.pc = "walk" /\ Top.fetched
    /\ Top.oi > Len(PagesOf(Top.parent)[Top.pi])
    /\ Top.pi < Len(PagesOf(Top.parent))
    /\ ou' = [ou EXCEPT !.stack[Len(ou.stack)] =
                 [Top EXCEPT !.pi = Top.pi + 1, !.oi = 1, !.fetched = FALSE]]
    /\ UNCHANGED <<tableExists, table, now, last, callers, others>>

\* return None: the caller goes on with its next unit; the outermost call
\* gives the command its 'not found'.
Return ==
    /\ ou.pc = "walk" /\ Top.fetched
    /\ Top.oi > Len(PagesOf(Top.parent)[Top.pi])
    /\ Top.pi = Len(PagesOf(Top.parent))
    /\ ou' = IF Len(ou.stack) = 1
             THEN [ou EXCEPT !.pc = "none", !.outcome = "OUNotFound",
                             !.stack = <<>>]
             ELSE LET rest == SubSeq(ou.stack, 1, Len(ou.stack) - 1)
                  IN  [ou EXCEPT !.stack =
                         [rest EXCEPT ![Len(rest)].oi = rest[Len(rest)].oi + 1]]
    /\ UNCHANGED <<tableExists, table, now, last, callers, others>>

InitWalk ==
    /\ tableExists = TRUE
    /\ table = [k \in {} |-> NoItem]
    /\ now = 0
    /\ last = NoCall
    /\ callers = Idle
    /\ mv = Idle /\ pipelines = Idle /\ view = Idle
    /\ \E n \in 0..MaxMoveOUs :
         \E par \in Hierarchies(n), names \in [1..n -> OuNames],
            back \in BackEdges(n), size \in 1..MaxPage,
            target \in TargetNames, cmd \in MoveCommands :
              ou = [kids |-> WithBackEdge(Listing(par), back), back |-> back,
                    names |-> names, page |-> size, target |-> target,
                    cmd |-> cmd, pc |-> "walk", target_ou_id |-> NoOu,
                    stack |-> <<Frame(RootId)>>, calls |-> 0,
                    error |-> "", outcome |-> ""]

NextWalk ==
    \/ \E ok \in BOOLEAN : ListPage(ok)
    \/ Visit
    \/ NextPage
    \/ Return

SpecWalk == InitWalk /\ [][NextWalk]_vars

----------------------------------------------------------------------------
(* Claims about the ledger, checked under Spec *)

\* The attributes of an item other than its update timestamp.
Others(item) == [k \in (DOMAIN item) \ {"updated_date"} |-> item[k]]

\* C1: a put whose request_id is already in the ledger fails and leaves the
\* stored record as it was.
C1_PutCollisionRejected ==
    [][\A args \in RequestArgs :
        (create_account_request(args) /\ args.request_id \in DOMAIN table)
        => (~last'.ok /\ table'[args.request_id] = table[args.request_id])]_vars

\* C2: a put of a request whose id is new, directly followed by a get of
\* that id, returns the item that was put.
C2_PutThenGet ==
    [][\A id \in RequestIds :
        (/\ last.op = "put" /\ last.id = id /\ ~last.existed /\ last.ok
         /\ get_account_request(id))
        => (last'.found /\ last'.item = last.item)]_vars

C2_Witness ==
    /\ last.op = "get"
    /\ last.afterPut
    /\ last.found
    /\ last.item.client_id = "beta"
    /\ Cardinality(DOMAIN table) = 2

\* C3: an update of a request_id that is not in the ledger fails and the set
\* of request_ids in the ledger stays the same.
C3_UpdateAbsentRejected ==
    [][\A id \in RequestIds, u \in Updates :
        (update_account_request(id, u) /\ id \notin DOMAIN table)
        => (~last'.ok /\ DOMAIN table' = DOMAIN table)]_vars

\* C4: no update changes template, email, name, client_id or target_ou of
\* an existing record.
C4_ImmutableFields ==
    [][\A id \in RequestIds, u \in Updates :
        (update_account_request(id, u) /\ id \in DOMAIN table)
        => \A f \in ImmutableFields \cap DOMAIN table[id] :
             f \in DOMAIN table'[id] /\ table'[id][f] = table[id][f]]_vars

\* The second of two identical updates of a record that existed before the
\* first.
SecondUpdate(id, u) ==
    /\ last.op = "update" /\ last.id = id /\ last.upd = u /\ last.existed
    /\ update_account_request(id, u)

\* C5 (as stated): repeating an update of an existing record changes no
\* field but updated_date, and strictly advances updated_date.
C5_RepeatAdvances ==
    [][\A id \in RequestIds, u \in Updates :
        SecondUpdate(id, u)
        => /\ Others(table'[id]) = Others(table[id])
           /\ table'[id].updated_date > table[id].updated_date]_vars

\* C5 (amended): repeating an update of an existing record changes no field
\* but updated_date, and sets updated_date to the clock reading taken by the
\* second call.
C5_RepeatRestamps ==
    [][\A id \in RequestIds, u \in Updates :
        SecondUpdate(id, u)
        => /\ Others(table'[id]) = Others(table[id])
           /\ "updated_date" \in DOMAIN table'[id]
           /\ table'[id].updated_date = now]_vars

C5_Witness ==
    /\ last.op = "update"
    /\ last.repeat
    /\ last.upd # NoItem
    /\ now > 0
    /\ table[last.id].updated_date = now

\* C6: deleting a request_id that is not in the ledger succeeds and changes
\* no record, so a second delete of the same id changes nothing; a delete
\* never changes another record.
C6_DeleteIdempotent ==
    [][\A id \in RequestIds :
        delete_account_request(id)
        => /\ last'.ok
           /\ id \notin DOMAIN table'
           /\ \A o \in DOMAIN table \ {id} :
                o \in DOMAIN table' /\ table'[o] = table[o]
           /\ (id \notin DOMAIN table => table' = table)]_vars

C6_Witness ==
    /\ last.op = "delete"
    /\ ~last.existed
    /\ last.ok
    /\ table # [k \in {} |-> NoItem]

\* C7: a listing with a client_id filter returns at most `limit` records,
\* each of that client_id and, when a status filter is given, of that status.
C7_ListByClient ==
    (last.op = "list" /\ last.client # NoFilter)
    => /\ Len(last.items) <= last.limit
       /\ \A i \in 1..Len(last.items) :
            /\ last.items[i].client_id = last.client
            /\ (last.status # NoFilter
                => last.items[i].status = last.status)

C7_Witness ==
    /\ last.op = "list"
    /\ last.client = "acme"
    /\ last.limit = 1
    /\ Len(last.items) = 1
    /\ Cardinality({id \in DOMAIN table :
                      /\ "client_id" \in DOMAIN table[id]
                      /\ table[id].client_id = "acme"}) = 2

----------------------------------------------------------------------------
(* Claims about concurrent updates, checked under SpecConc *)

\* C9: when two callers update the same existing record with disjoint field
\* sets, the record holds every value of every caller whose update has been
\* written, whatever the interleaving.
C9_NoLostUpdate ==
    \A c \in DOMAIN callers :
        callers[c].pc = "done"
        => \A k \in DOMAIN callers[c].upd :
              /\ k \in DOMAIN table[SharedId]
              /\ table[SharedId][k] = callers[c].upd[k]

\* Both updates are written, the second one built before the first was sent.
C9_Witness ==
    /\ DOMAIN callers = Callers
    /\ \A c \in Callers : callers[c].pc = "done"
    /\ callers["caller-1"].sets.updated_date = 0
    /\ callers["caller-2"].sets.updated_date = 0
    /\ now = 1
    /\ "status" \in DOMAIN callers["caller-1"].upd
    /\ "account_id" \in DOMAIN callers["caller-2"].upd


----------------------------------------------------------------------------
(* Claims about the OU resolver, checked under SpecOU *)

\* The units below node p in depth-first pre-order, siblings in listing
\* order.
RECURSIVE PreOrderOf(_, _)
PreOrderOf(kids, listing) ==
    IF listing = <<>> THEN <<>>
    ELSE <<Head(listing)>> \o PreOrderOf(kids, kids[Head(listing)])
                           \o PreOrderOf(kids, Tail(listing))

PreOrder == PreOrderOf(ou.kids, ou.kids[RootId])

\* Whether the name of unit o matches the target for the command that ran.
Matches(o) ==
    IF ou.cmd = "simple" THEN Lower(ou.names[o]) = Lower(ou.target)
    ELSE ou.names[o] = ou.target

\* The first unit in pre-order whose name matches, or NoOu.
FirstMatch ==
    LET hits == SelectSeq(PreOrder, Matches)
    IN  IF hits = <<>> THEN NoOu ELSE hits[1]

\* C10: find_ou_by_name returns the first unit in depth-first pre-order
\* whose name matches the target, and None when no unit matches, an empty
\* hierarchy included.
C10_FirstPreOrderMatch ==
    ou # Idle /\ ou.pc = "resolved"
    => ou.target_ou_id = FirstMatch

\* root -> {A/Sandbox, B/Sandbox}, A listed before B: the Sandbox under A is
\* returned.
C10_Witness ==
    /\ ou # Idle /\ ou.pc = "resolved"
    /\ DOMAIN ou.kids = 0..4
    /\ ou.kids[RootId] = <<1, 2>>
    /\ ou.kids[1] = <<3>>
    /\ ou.kids[2] = <<4>>
    /\ ou.names = <<"Dev", "Dev", "Sandbox", "Sandbox">>
    /\ ou.target = "Sandbox"
    /\ ou.target_ou_id = 3

\* An empty hierarchy: nothing is found.
C10_WitnessEmpty ==
    /\ ou # Idle /\ ou.pc = "resolved"
    /\ ou.names = <<>>
    /\ ou.target_ou_id = NoOu


\* The first unit in pre-order whose name equals the target when letter case
\* is ignored, or NoOu.
FirstMatchIgnoringCase ==
    LET hits == SelectSeq(PreOrder,
                    LAMBDA o : Lower(ou.names[o]) = Lower(ou.target))
    IN  IF hits = <<>> THEN NoOu ELSE hits[1]

\* C11: in both commands the resolver compares names case-insensitively: it
\* returns the first unit in pre-order whose name equals the target when
\* letter case is ignored.
C11_CaseInsensitive ==
    ou # Idle /\ ou.pc = "resolved"
    => ou.target_ou_id = FirstMatchIgnoringCase

----------------------------------------------------------------------------
(* Claims about the migrate commands, checked under SpecMigrate *)

Moving == mv # Idle /\ mv.cmd \in MoveCommands

\* The outcomes of an attempt that stopped before the plan was complete.
PlanningFailures ==
    {"Invalid", "AccountError", "AccountNotFound", "ParentError",
     "OUNotFound", "OUError"}

\* C12: when the current parent of the account is the resolved target unit,
\* the attempt makes no move-account call and ends with AlreadyInTargetOU,
\* in dry-run mode and in live mode, whatever the operator answers.
C12_AlreadyInTargetOU ==
    Moving /\ mv.target_ou_id # NoOu /\ mv.current_parent = mv.target_ou_id
    => /\ mv.moves = 0
       /\ mv.pc = "done" /\ mv.outcome \notin PlanningFailures
            => mv.outcome = "AlreadyInTargetOU"

\* C13: when no unit of the hierarchy has the target name (even ignoring
\* letter case), the attempt never gets past the target resolution: no
\* move-account call, no confirmation asked, and the resolution step itself,
\* when the Directory Service answers it, ends the attempt with OUNotFound.
C13_NoTarget == Moving /\ FirstMatchIgnoringCase = NoOu

C13_OUNotFound ==
    /\ [](C13_NoTarget
          => /\ mv.moves = 0 /\ ~mv.asked /\ mv.target_ou_id = NoOu
             /\ mv.pc \notin {"plan", "confirm", "execute"}
             /\ mv.pc = "done" => mv.outcome \in PlanningFailures)
    /\ [][C13_NoTarget /\ mv.pc = "target" /\ mv' # mv /\ mv'.outcome # "OUError"
          => mv'.pc = "done" /\ mv'.outcome = "OUNotFound"]_vars

C13_Witness ==
    /\ C13_NoTarget /\ ou.names # <<>>
    /\ mv.pc = "done" /\ mv.outcome = "OUNotFound" /\ ~mv.dry_run

\* C14: in dry-run mode no attempt makes a move-account call or a ledger
\* write, the ledger is what it was, and the attempt never reaches the
\* confirmation or the execution: it ends once the plan is reported.
C14_DryRunNoMutation ==
    mv # Idle /\ mv.dry_run
    => /\ mv.moves = 0 /\ mv.writes = 0 /\ table = mv.before
       /\ ~mv.asked
       /\ mv.pc \notin {"confirm", "execute"}

C14_Witness ==
    /\ mv # Idle /\ mv.dry_run /\ mv.pc = "done"
    /\ mv.outcome = "DryRunReported"
    /\ mv.cmd = "existing_ou" /\ mv.target_ou_id # NoOu

\* C15: in live mode a move-account call or a ledger write has been preceded
\* by an affirmative answer of the operator in the same attempt, and an
\* attempt the operator declined has ended, cancelled, with no mutating call.
C15_ConfirmedBeforeMutation ==
    mv # Idle /\ ~mv.dry_run
    => /\ (mv.moves > 0 \/ mv.writes > 0 \/ table # mv.before \/ mv.pc = "execute")
            => mv.asked /\ mv.confirmed
       /\ mv.asked /\ ~mv.confirmed
            => /\ mv.pc = "done" /\ mv.outcome = "Cancelled"
               /\ mv.moves = 0 /\ mv.writes = 0 /\ table = mv.before

C15_Witness ==
    /\ Moving /\ ~mv.dry_run /\ mv.moves = 1 /\ mv.confirmed
    /\ mv.outcome = "Succeeded" /\ mv.parent = mv.target_ou_id

\* C16: an attempt makes at most one move-account call; after a failed call
\* the attempt has ended in Failed with that single call and no ledger write.
C16_AtMostOneMove ==
    mv # Idle
    => /\ mv.moves <= 1 /\ mv.moves + mv.writes <= 1
       /\ mv.outcome = "Failed"
            => /\ mv.pc = "done" /\ table = mv.before
               /\ mv.cmd \in MoveCommands => mv.writes = 0
       /\ mv.moves = 1 => mv.pc = "done" /\ mv.outcome \in {"Succeeded", "Failed"}

C16_Witness ==
    Moving /\ mv.pc = "done" /\ mv.outcome = "Failed" /\ mv.moves = 1

\* C17: a move-account call has been made only if, in the same attempt, the
\* account was found (the given id, or the first account whose name equals
\* the source ignoring case), list-parents gave its parent, and the target
\* unit was resolved; an attempt that ended in a planning failure, or whose
\* list-parents gave no parent, has made no move-account call.
C17_MoveOnlyAfterPlanning ==
    Moving
    => /\ mv.moves > 0
            => /\ AccountExists(mv.account_id)
               /\ mv.account_id = IF IsAccountId(mv.source) THEN mv.source
                                  ELSE FindAccountByName(mv.source)
               /\ mv.current_parent # NoOu
               /\ mv.target_ou_id # NoOu
               /\ mv.target_ou_id =
                    IF mv.cmd = "simple"
                    THEN find_ou_by_name_simple(RootId, ou.target)
                    ELSE find_ou_by_name_existing_ou(RootId, ou.target)
       /\ mv.outcome \in PlanningFailures => mv.moves = 0
       /\ mv.pc = "done" /\ mv.current_parent = NoOu => mv.moves = 0

C17_Witness ==
    /\ Moving /\ mv.moves = 1 /\ mv.cmd = "simple"
    /\ mv.source = "prod-app" /\ mv.account_id = "111111111111"

\* An attempt that list-parents answered with no parent, confirmed by the
\* operator, ends in Failed without a move-account call.
C17_WitnessNoParent ==
    /\ Moving /\ mv.pc = "done" /\ mv.confirmed /\ mv.current_parent = NoOu
    /\ mv.outcome = "Failed" /\ mv.moves = 0

\* C18: a confirmed account migration makes one ledger write and no
\* move-account call; the record under the generated id carries the three
\* migration customizations, with original_account_id the given account id,
\* and status pending; every other record is untouched, and with a fresh id
\* the ledger has exactly that one record more.
C18_MigrationRequestWritten ==
    mv # Idle /\ mv.cmd = "account" /\ mv.pc = "done" /\ mv.outcome = "Succeeded"
    => /\ mv.confirmed /\ mv.writes = 1 /\ mv.moves = 0
       /\ mv.request_id \in DOMAIN table
       /\ DOMAIN table = DOMAIN mv.before \cup {mv.request_id}
       /\ \A id \in DOMAIN mv.before \ {mv.request_id} : table[id] = mv.before[id]
       /\ LET item == table[mv.request_id]
          IN  /\ item.status = "pending"
              /\ DOMAIN item.customizations =
                    {"migration_source", "original_account_id", "migration_type"}
              /\ item.customizations.original_account_id = mv.source
              /\ item.customizations.migration_source = "existing_account"
              /\ item.customizations.migration_type = "ou_change"

C18_Witness ==
    /\ mv # Idle /\ mv.cmd = "account" /\ mv.outcome = "Succeeded"
    /\ mv.request_id \notin DOMAIN mv.before
    /\ mv.before # [k \in {} |-> NoItem]
    /\ Cardinality(DOMAIN table) = 2

----------------------------------------------------------------------------
(* Claims about the status commands, checked under SpecStatus *)

\* C19: check of an existing request shows the status of the ledger record as
\* ledger status and, when the Pipeline Service lists executions, the status
\* of the freshest execution as pipeline status.
C19_CombinedView ==
    /\ view # Idle /\ view.cmd = "check" /\ view.found
    /\ pipelines.state = "listed" /\ pipelines.executions # <<>>
    => /\ view.ledger_status = table[view.request_id].status
       /\ view.pipeline_status = pipelines.executions[1]

\* C20: check and overview leave every ledger record as it was, whatever the
\* ledger holds and whatever the Pipeline Service answers.
C20_StatusReadOnly ==
    [][/\ \A request_id \in RequestIds : check(request_id) => table' = table
       /\ \A ord \in StoreOrders : overview(ord) => table' = table]_vars

C20_Witness ==
    /\ view # Idle /\ view.cmd = "overview" /\ view.total = 2
    /\ view.aft = "Error" /\ view.counts["failed"] = 1

----------------------------------------------------------------------------
(* Claims about overview, checked under SpecSummary *)

Min(a, b) == IF a < b THEN a ELSE b

\* The n most recently created records of the table.
MostRecent(tbl, n) ==
    {id \in DOMAIN tbl :
        Cardinality({j \in DOMAIN tbl :
            tbl[j].created_date > tbl[id].created_date}) < n}

\* C21: overview examines min(limit, ledger size) entries, its counts by
\* status sum to that number, they are the counts over the most recently
\* created entries, and on an empty ledger every count is zero.
C21_SummaryMostRecent ==
    view # Idle /\ view.cmd = "overview"
    => LET n == Min(OverviewLimit, Cardinality(DOMAIN table))
       IN  /\ view.total = n
           /\ view.counts["pending"] + view.counts["in_progress"]
                + view.counts["completed"] + view.counts["failed"] = n
           /\ \A st \in LedgerStatuses :
                view.counts[st] =
                    Cardinality({id \in MostRecent(table, n) :
                                    table[id].status = st})
           /\ table = [k \in {} |-> NoItem]
                => \A st \in LedgerStatuses : view.counts[st] = 0

----------------------------------------------------------------------------
(* Claims about the lifecycle, checked under SpecLifecycle *)

\* C22: in every ledger state reached by puts, updates and deletes, every
\* record has a status and it is one of pending, in_progress, completed,
\* failed.
C22_StatusInLifecycle ==
    \A id \in DOMAIN table :
        /\ "status" \in DOMAIN table[id]
        /\ table[id].status \in LedgerStatuses

----------------------------------------------------------------------------
(* Claims about list_ous, checked under SpecListOus *)

\* The node that lists unit o among its children.
ParentOf(o) == CHOOSE p \in DOMAIN ou.kids :
                  \E i \in 1..Len(ou.kids[p]) : ou.kids[p][i] = o

\* Children of the root are at level 0, every other unit one level below
\* its parent.
RECURSIVE LevelOf(_)
LevelOf(o) == IF ParentOf(o) = RootId THEN 0 ELSE LevelOf(ParentOf(o)) + 1

\* Whether a listing call raised during the traversal.
ListingFailed ==
    /\ ou.fail # NoFail
    /\ ou.fail.page <= Len(Paginate(ou.kids[ou.fail.node], ou.page))

\* C23: with every listing call answered, list_ous returns every unit of the
\* tree exactly once, in depth-first pre-order, each with its level, and a
\* second run on the same tree returns the same sequence.
C23_InventoryPreOrder ==
    ou # Idle /\ ou.outcome = "listed" /\ ~ListingFailed
    => /\ Len(ou.all_ous) = Len(PreOrder)
       /\ Len(PreOrder) = Len(ou.names)
       /\ \A i \in 1..Len(PreOrder) :
            ou.all_ous[i] = [id |-> PreOrder[i],
                             name |-> ou.names[PreOrder[i]],
                             level |-> LevelOf(PreOrder[i])]
       /\ \A i, j \in 1..Len(ou.all_ous) :
            i # j => ou.all_ous[i].id # ou.all_ous[j].id
       /\ ou.prev_outcome = "listed" => ou.all_ous = ou.prev_ous

\* root -> {1 -> {3}, 2}, pages of one unit, listed twice.
C23_Witness ==
    /\ ou # Idle /\ ou.runs = 2 /\ ou.fail = NoFail /\ ou.page = 1
    /\ ou.outcome = "listed" /\ ou.prev_outcome = "listed"
    /\ Len(ou.all_ous) = 3
    /\ <<ou.all_ous[1].id, ou.all_ous[2].id, ou.all_ous[3].id>> = <<1, 3, 2>>
    /\ <<ou.all_ous[1].level, ou.all_ous[2].level, ou.all_ous[3].level>>
         = <<0, 1, 0>>

\* C24: when a listing call raises during the traversal, list_ous ends with
\* an error and does not present the units collected so far as the
\* inventory.
C24_NoTruncatedSuccess ==
    ou # Idle /\ ou.runs > 0 /\ ListingFailed
    => ou.outcome = "error"

----------------------------------------------------------------------------
(* Claims about the search call by call, checked under SpecWalk *)

\* C25: whenever the search has descended into a child of a node, every page
\* of the child listing of that node has been read.
C25_PagesBeforeDescent ==
    ou # Idle /\ ou.pc = "walk"
    => \A i \in 1..(Len(ou.stack) - 1) :
          /\ ou.stack[i].fetched
          /\ ou.stack[i].pi = Len(PagesOf(ou.stack[i].parent))

\* C26: on any hierarchy, a cyclic or too deep one included, the search of
\* a name that no unit has ends, and when the depth limit was exceeded it
\* ends with MalformedHierarchy.
C26_MalformedHierarchy ==
    /\ ou # Idle
    /\ \A o \in 1..Len(ou.names) : ~NameMatches(o)
    /\ ou.pc = "error" /\ ou.error = "RecursionError"
    => ou.outcome = "MalformedHierarchy"

----------------------------------------------------------------------------
(* Claims about listing by status, checked under Spec *)

\* The records of the table that have status s.
WithStatus(tbl, s) ==
    {id \in DOMAIN tbl : "status" \in DOMAIN tbl[id] /\ tbl[id].status = s}

\* C27: a listing with only a status filter s and limit n returns
\* min(n, number of records with status s) records, each with status s.
C27_ListByStatus ==
    last.op = "list" /\ last.client = NoFilter /\ last.status # NoFilter
    => /\ Len(last.items) =
            Min(last.limit, Cardinality(WithStatus(table, last.status)))
       /\ \A i \in 1..Len(last.items) : last.items[i].status = last.status

====
